---- MODULE Spec2Model ----
(***************************************************************************)
(* The resampling framework of sampling.ipynb: class Resampler, its        *)
(* subclass CohenResampler and the function CohenEffectSize (also defined  *)
(* in the effect-size notebook), with the numpy operations they call       *)
(* (random.choice, mean, var, std, sqrt, percentile), and the overlap      *)
(* code of the effect-size notebook (Part Two, overlap_superiority).       *)
(*                                                                         *)
(* Where observations are integers, arithmetic is exact: a numpy float64   *)
(* is modelled by the real number it approximates, or by nan / +inf /      *)
(* -inf.                                                                   *)
(*   [k |-> "q", n, d]        the rational n/d, d > 0, in lowest terms      *)
(*   [k |-> "root", s, n, d]  s * sqrt(n/d), s in {1,-1}, n/d not a square  *)
(*   [k |-> "inf", s]         s * infinity                                  *)
(*   [k |-> "nan"]            not a number                                  *)
(*   [k |-> "lerp", a, b, t]  a + (b - a) * t for irrational a < b, 0<t<1   *)
(*   [k |-> "std", xs]        the standard deviation of irrational xs       *)
(* IEEE rounding of these values is not modelled.  Observations that are   *)
(* not integers are float64 with all their bits, and their sums and means  *)
(* are rounded as IEEE 754 rounds them (section float64, FloatSpec):       *)
(*   [k |-> "f64", e, m]      1.m[2]..m[53] (binary) * 2^e                  *)
(***************************************************************************)
EXTENDS Integers, Sequences, FiniteSets

(* ------------------------------ bounds --------------------------------- *)
\* longest sample given to Resampler(sample)
MaxN == 2
\* largest total length len(group1) + len(group2) given to CohenResampler
MaxPair == 3
\* largest iters argument of compute_sampling_distribution (the smallest is MinIters)
MaxIters == 2
\* the iteration count plot_sampling_distribution runs with (iters=1000 in the source)
PlotIters == 2
\* the position of the generator in its stream is counted modulo RngPeriod
RngPeriod == 4
\* longest array a notebook cell passes to a function it calls directly
MaxGroup == 3
\* largest sample size n given to overlap_superiority (n=1000 in the source)
MaxDraw == 2
\* longest sample of float64 observations given to Resampler(sample)
MaxFloatN == 3
\* longest array sample_means the cells of Part One work on (iters=1000 in the source)
MaxMeans == 4

\* the observations samples are made of
Values == {1, 2}
\* the smallest iters argument tried (range(iters) is empty for iters <= 0)
MinIters == 0 - 1

(* --------------------------- exact arithmetic -------------------------- *)
Abs(x) == IF x < 0 THEN 0 - x ELSE x

Sgn(x) == IF x < 0 THEN 0 - 1 ELSE IF x = 0 THEN 0 ELSE 1

RECURSIVE Gcd(_, _)
Gcd(a, b) == IF b = 0 THEN a ELSE Gcd(b, a % b)

\* the rational n/d (d # 0) in lowest terms
Q(n, d) ==
  LET g == Gcd(Abs(n), Abs(d))
      s == Sgn(d)
  IN [k |-> "q", n |-> (s * n) \div g, d |-> (s * d) \div g]

NaN == [k |-> "nan"]

Inf(s) == [k |-> "inf", s |-> s]

QAdd(x, y) == Q(x.n * y.d + y.n * x.d, x.d * y.d)

QSub(x, y) == Q(x.n * y.d - y.n * x.d, x.d * y.d)

QMul(x, y) == Q(x.n * y.n, x.d * y.d)

\* y # 0
QDiv(x, y) == Q(x.n * y.d, x.d * y.n)

QLe(x, y) == x.n * y.d <= y.n * x.d

QLt(x, y) == x.n * y.d < y.n * x.d

IsSquare(m) == \E r \in 0..m : r * r = m

ISqrt(m) == CHOOSE r \in 0..m : r * r = m

RECURSIVE SumSeq(_)
SumSeq(xs) == IF xs = <<>> THEN 0 ELSE Head(xs) + SumSeq(Tail(xs))

RECURSIVE QSum(_)
QSum(xs) == IF xs = <<>> THEN Q(0, 1) ELSE QAdd(Head(xs), QSum(Tail(xs)))

IsFinite(x) == x.k \in {"q", "root", "lerp", "std"}

(* floating-point operations on rationals, infinities and nan (IEEE 754) *)
XNeg(x) ==
  CASE x.k = "nan" -> NaN
    [] x.k = "inf" -> Inf(0 - x.s)
    [] OTHER -> Q(0 - x.n, x.d)

XAdd(x, y) ==
  CASE x.k = "nan" \/ y.k = "nan" -> NaN
    [] x.k = "inf" /\ y.k = "inf" -> IF x.s = y.s THEN x ELSE NaN
    [] x.k = "inf" -> x
    [] y.k = "inf" -> y
    [] OTHER -> QAdd(x, y)

XSub(x, y) == XAdd(x, XNeg(y))

XMul(x, y) ==
  CASE x.k = "nan" \/ y.k = "nan" -> NaN
    [] x.k = "inf" /\ y.k = "inf" -> Inf(x.s * y.s)
    [] x.k = "inf" -> IF y.n = 0 THEN NaN ELSE Inf(x.s * Sgn(y.n))
    [] y.k = "inf" -> IF x.n = 0 THEN NaN ELSE Inf(y.s * Sgn(x.n))
    [] OTHER -> QMul(x, y)

\* the order of the finite values q and root: x is sign(x) * sqrt(|SgnSq(x)|)
SgnSq(x) ==
  IF x.k = "q" THEN Q(Sgn(x.n) * x.n * x.n, x.d * x.d) ELSE Q(x.s * x.n, x.d)

\* s * sqrt(n/d) for n/d > 0: a rational when n/d is a square, else a root
Root(s, n, d) ==
  LET r == Q(n, d)
  IN IF IsSquare(r.n) /\ IsSquare(r.d)
       THEN Q(s * ISqrt(r.n), ISqrt(r.d))
       ELSE [k |-> "root", s |-> s, n |-> r.n, d |-> r.d]

\* x <= y for x, y among q, root, inf
FLeBase(x, y) ==
  CASE x.k = "nan" \/ y.k = "nan" -> FALSE
    [] x.k = "inf" -> x.s < 0 \/ (y.k = "inf" /\ y.s > 0)
    [] y.k = "inf" -> y.s > 0
    [] OTHER -> QLe(SgnSq(x), SgnSq(y))

\* x < y for x, y among q, root, inf, nan; every comparison with nan is false
FLt(x, y) == x.k # "nan" /\ y.k # "nan" /\ ~FLeBase(y, x)

\* the interval a lerp value lies in, strictly inside: a < a + (b - a) * t < b
LerpLo(x) == IF x.k = "lerp" THEN x.a ELSE x

LerpHi(x) == IF x.k = "lerp" THEN x.b ELSE x

\* x <= y; every comparison with nan is false.  Two lerp values are compared
\* when their intervals are the same or do not overlap inside.
FLe(x, y) ==
  CASE x.k = "nan" \/ y.k = "nan" -> FALSE
    [] x.k # "lerp" /\ y.k # "lerp" -> FLeBase(x, y)
    [] (x.k = "lerp" \/ y.k = "lerp") /\ FLeBase(LerpHi(x), LerpLo(y)) -> TRUE
    [] (x.k = "lerp" \/ y.k = "lerp") /\ ~FLeBase(LerpHi(x), LerpLo(y))
         /\ FLeBase(LerpHi(y), LerpLo(x)) -> FALSE
    [] x.k = "lerp" /\ y.k = "lerp" /\ x.a = y.a /\ x.b = y.b
         /\ ~FLeBase(LerpHi(x), LerpLo(y)) -> QLe(x.t, y.t)

(* ------------------------------- numpy --------------------------------- *)
\* numpy.random.choice with a fault: replace=False, no index is drawn twice
Draws_without_replacement(pop, size) ==
  {u \in [1..size -> 0..(pop - 1)] : \A i, j \in 1..size : u[i] = u[j] => i = j}

\* the index vectors numpy.random.choice may draw: size indices into a
\* population of pop elements (randint(0, pop, size)); the only vector for
\* size 0 is the empty one
Draws(pop, size) == [1..size -> 0..(pop - 1)]

\* numpy.random.choice(a, size, replace=True) when the generator yields the indices u
choice(a, size, u) == [i \in 1..size |-> a[u[i] + 1]]

\* ndarray.mean() of an array of observations: nan for an empty array
mean(a) == IF Len(a) = 0 THEN NaN ELSE Q(SumSeq(a), Len(a))

\* ndarray.var() (ddof = 0): the mean of the squared deviations from the mean
var(a) ==
  IF Len(a) = 0 THEN NaN
  ELSE LET m == mean(a)
           dev(i) == QSub(Q(a[i], 1), m)
       IN QDiv(QSum([i \in 1..Len(a) |-> QMul(dev(i), dev(i))]), Q(Len(a), 1))

\* numpy.sqrt of a rational or nan
sqrt(x) ==
  IF x.k = "nan" THEN NaN
  ELSE IF x.n < 0 THEN NaN
  ELSE Root(1, x.n, x.d)

\* x / y in float64 for x, y rational or nan, y possibly zero
XDiv(x, y) ==
  CASE x.k = "nan" \/ y.k = "nan" -> NaN
    [] y.n = 0 -> IF x.n = 0 THEN NaN ELSE Inf(Sgn(x.n))
    [] OTHER -> QDiv(x, y)

\* x / y for x rational or nan and y = sqrt(..) (rational >= 0, root or nan)
FDiv(x, y) ==
  CASE x.k = "nan" \/ y.k = "nan" -> NaN
    [] y.k = "q" -> XDiv(x, y)
    [] y.k = "root" ->
         IF x.n = 0 THEN Q(0, 1)
         ELSE Root(Sgn(x.n) * y.s, x.n * x.n * y.d, x.d * x.d * y.n)

\* CohenEffectSize(group1, group2) of sampling.ipynb
CohenEffectSize(group1, group2) ==
  LET diff == XSub(mean(group1), mean(group2))
      n1 == Len(group1)
      n2 == Len(group2)
      var1 == var(group1)
      var2 == var(group2)
      pooled_var == XDiv(XAdd(XMul(Q(n1, 1), var1), XMul(Q(n2, 1), var2)),
                         Q(n1 + n2, 1))
      d == FDiv(diff, sqrt(pooled_var))
  IN d

\* CohenEffectSize(group1, group2) of the effect-size notebook
CohenEffectSize_effect_size(group1, group2) ==
  LET diff == XSub(mean(group1), mean(group2))
      n1 == Len(group1)
      n2 == Len(group2)
      var1 == var(group1)
      var2 == var(group2)
      pooled_var == XDiv(XAdd(XMul(Q(n1, 1), var1), XMul(Q(n2, 1), var2)),
                         Q(n1 + n2, 1))
      d == FDiv(diff, sqrt(pooled_var))
  IN d

\* x inserted into the ascending sequence s
RECURSIVE Insert(_, _)
Insert(x, s) ==
  IF s = <<>> THEN <<x>>
  ELSE IF FLeBase(x, Head(s)) THEN <<x>> \o s
  ELSE <<Head(s)>> \o Insert(x, Tail(s))

\* the values of a (none of them nan) in ascending order
RECURSIVE Sort(_)
Sort(a) == IF a = <<>> THEN <<>> ELSE Insert(Head(a), Sort(Tail(a)))

\* a value of the same kind as x for float arithmetic with an infinity, where
\* the magnitude of a finite operand does not change the result
Fin0(x) == IF x.k \in {"inf", "nan"} THEN x ELSE Q(0, 1)

\* numpy's _lerp on rationals, infinities and nan:
\* a + (b - a) * t, and b - (b - a) * (1 - t) where t >= 0.5
LerpX(a, b, t) ==
  LET diff_b_a == XSub(b, a)
  IN IF QLt(t, Q(1, 2))
       THEN XAdd(a, XMul(diff_b_a, t))
       ELSE XSub(b, XMul(diff_b_a, XSub(Q(1, 1), t)))

\* numpy's _lerp(a, b, t), 0 <= t < 1
Lerp(a, b, t) ==
  CASE a.k \in {"q", "inf", "nan"} /\ b.k \in {"q", "inf", "nan"} -> LerpX(a, b, t)
    [] a.k = "root" /\ b.k \in {"inf", "nan"} -> LerpX(Fin0(a), b, t)
    [] a.k \in {"inf", "nan"} /\ b.k = "root" -> LerpX(a, Fin0(b), t)
    [] OTHER -> IF a = b \/ t.n = 0 THEN a
                ELSE [k |-> "lerp", a |-> a, b |-> b, t |-> t]

\* numpy.percentile with a fault: the value at fraction p/100 of the way
\* from the least to the greatest element, whatever lies between them
percentile_between_extremes(a, p) ==
  IF \E i \in 1..Len(a) : a[i].k = "nan" THEN NaN
  ELSE LET arr == Sort(a)
       IN Lerp(arr[1], arr[Len(a)], Q(p, 100))

\* numpy.percentile(a, p) for one percentage p and a non-empty array a,
\* method 'linear': the value at rank p/100 * (len - 1) of the sorted array
percentile(a, p) ==
  IF \E i \in 1..Len(a) : a[i].k = "nan" THEN NaN
  ELSE LET arr == Sort(a)
           rank == p * (Len(a) - 1)
           previous == rank \div 100
           next == IF previous + 1 > Len(a) - 1 THEN Len(a) - 1 ELSE previous + 1
           gamma == Q(rank % 100, 100)
       IN Lerp(arr[previous + 1], arr[next + 1], gamma)

\* the ways pyplot.hist(sample_stats) can end: it draws, or, when a
\* statistic is nan or infinite, numpy.histogram finds no finite range for
\* the bins and raises ValueError; which of the two depends on the versions
\* of numpy and matplotlib installed
hist(sample_stats) ==
  IF \E i \in 1..Len(sample_stats) : ~IsFinite(sample_stats[i])
    THEN {"none", "ValueError"}
    ELSE {"none"}

\* ndarray.std() of a non-empty array of statistics:
\* sqrt(mean(abs(x - x.mean())**2))
std(a) ==
  IF \E i \in 1..Len(a) : a[i].k \in {"nan", "inf"} THEN NaN
  ELSE IF \A i \in 1..Len(a) : a[i].k = "q"
    THEN LET m == QDiv(QSum(a), Q(Len(a), 1))
             dev(i) == QSub(a[i], m)
         IN sqrt(QDiv(QSum([i \in 1..Len(a) |-> QMul(dev(i), dev(i))]),
                      Q(Len(a), 1)))
  ELSE IF \A i \in 1..Len(a) : a[i] = a[1] THEN Q(0, 1)
  ELSE [k |-> "std", xs |-> a]

(* ------------------------------ float64 -------------------------------- *)
\* An observation that is not an integer is a float64 with all its bits:
\* [k |-> "f64", e, m] is the positive normal number
\* (m[1].m[2] ... m[53]) in binary times 2^e, m[1] = 1.  Sums and quotients
\* are rounded as IEEE 754 rounds them, to nearest, ties to even.

\* n zero bits
Zeros(n) == [i \in 1..n |-> 0]

\* the four bits of the hexadecimal digit h
HexBits(h) == <<(h \div 8) % 2, (h \div 4) % 2, (h \div 2) % 2, h % 2>>

\* the bits of the hexadecimal digits hs, four to a digit
HexToBits(hs) ==
  [i \in 1..(4 * Len(hs)) |-> HexBits(hs[((i - 1) \div 4) + 1])[((i - 1) % 4) + 1]]

\* the float64 that float.hex() writes 0x1.<hs>p<e>, hs its 13 hexadecimal digits
Float64(hs, e) == [k |-> "f64", e |-> e, m |-> <<1>> \o HexToBits(hs)]

\* the carry into position i when the bit strings a and b (of one length,
\* most significant bit first) and the carry c are added: some less
\* significant position produces a carry and every position between passes
\* it on, or c itself is passed on by every less significant position
CarryInto(a, b, c, i) ==
  \/ \E j \in (i + 1)..Len(a) :
       /\ a[j] + b[j] = 2
       /\ \A x \in (i + 1)..(j - 1) : a[x] + b[x] = 1
  \/ c = 1 /\ \A x \in (i + 1)..Len(a) : a[x] + b[x] = 1

\* a + b + c for two bit strings of one length and a carry c; the result is
\* one bit longer
BitsAdd(a, b, c) ==
  [i \in 1..(Len(a) + 1) |->
     IF i = 1 THEN (IF CarryInto(a, b, c, 0) THEN 1 ELSE 0)
     ELSE (a[i - 1] + b[i - 1]
             + (IF CarryInto(a, b, c, i - 1) THEN 1 ELSE 0)) % 2]

\* the bit string t without its leading zeros
StripZeros(t) ==
  IF \A i \in 1..Len(t) : t[i] = 0 THEN <<>>
  ELSE LET first == CHOOSE i \in 1..Len(t) :
                      t[i] = 1 /\ \A j \in 1..(i - 1) : t[j] = 0
       IN SubSeq(t, first, Len(t))

\* 2^x modulo n
RECURSIVE Pow2Mod(_, _)
Pow2Mod(x, n) ==
  IF x = 0 THEN 1 % n
  ELSE LET h == Pow2Mod(x \div 2, n)
       IN (h * h * (IF x % 2 = 1 THEN 2 ELSE 1)) % n

\* the number whose bits are t[1..i], modulo n
PrefixMod(t, n, i) ==
  LET weight(v) == Cardinality({j \in 1..i : t[j] = 1 /\ Pow2Mod(i - j, n) = v})
      RECURSIVE total(_)
      total(v) == IF v = 0 THEN 0 ELSE v * weight(v) + total(v - 1)
  IN total(n - 1) % n

\* long division of the bit string t by n: the quotient (as many bits as t
\* has) and the remainder
BitsDivMod(t, n) ==
  [q |-> [i \in 1..Len(t) |-> (2 * PrefixMod(t, n, i - 1) + t[i]) \div n],
   r |-> PrefixMod(t, n, Len(t))]

\* a <= b for two bit strings of one length
BitsLe(a, b) ==
  \/ \A i \in 1..Len(a) : a[i] = b[i]
  \/ \E i \in 1..Len(a) : a[i] < b[i] /\ \A j \in 1..(i - 1) : a[j] = b[j]

\* the float64 nearest to the exact value whose bits are t (t[1] = 1, of
\* weight 2^e), plus, when sticky, a positive amount below the weight of the
\* last bit of t (t then has 55 bits or more); a tie goes to the even
\* neighbour
RoundToFloat64(t, e, sticky) ==
  IF Len(t) <= 53 THEN [k |-> "f64", e |-> e, m |-> t \o Zeros(53 - Len(t))]
  ELSE LET keep == SubSeq(t, 1, 53)
           half == t[54] = 1
           rest == sticky \/ \E i \in 55..Len(t) : t[i] = 1
           up == half /\ (rest \/ keep[53] = 1)
           r == BitsAdd(keep, Zeros(53), IF up THEN 1 ELSE 0)
       IN IF r[1] = 1
            THEN [k |-> "f64", e |-> e + 1, m |-> SubSeq(r, 1, 53)]
            ELSE [k |-> "f64", e |-> e, m |-> SubSeq(r, 2, 54)]

\* x + y in float64, for positive x and y
F64Add(x, y) ==
  LET hi == IF x.e >= y.e THEN x ELSE y
      lo == IF x.e >= y.e THEN y ELSE x
      d == hi.e - lo.e
      t == BitsAdd(hi.m \o Zeros(d), Zeros(d) \o lo.m, 0)
  IN IF t[1] = 1 THEN RoundToFloat64(t, hi.e + 1, FALSE)
     ELSE RoundToFloat64(Tail(t), hi.e, FALSE)

\* x / n in float64, for positive x and an integer n >= 1 (n is exact as a
\* float64): the quotient is carried n + 2 bits past the 53 of x, which
\* leaves 55 bits or more, and the remainder tells whether it is exact
F64DivInt(x, n) ==
  LET dm == BitsDivMod(x.m \o Zeros(n + 2), n)
      q == StripZeros(dm.q)
  IN RoundToFloat64(q, x.e + Len(q) - 53 - (n + 2), dm.r # 0)

\* x <= y for positive float64 x and y
F64Le(x, y) == x.e < y.e \/ (x.e = y.e /\ BitsLe(x.m, y.m))

\* the sum numpy's add.reduce gives a non-empty array of fewer than 8
\* float64: the elements added one after the other, from the first
RECURSIVE F64Sum(_)
F64Sum(a) ==
  IF Len(a) = 1 THEN a[1]
  ELSE F64Add(F64Sum(SubSeq(a, 1, Len(a) - 1)), a[Len(a)])

\* ndarray.mean() of an array of float64 observations (fewer than 8): the
\* sum divided by the length; nan for an empty array
mean_float64(a) ==
  IF Len(a) = 0 THEN NaN ELSE F64DivInt(F64Sum(a), Len(a))

(* ------------------------ effect-size notebook ------------------------- *)
\* sum(sample > thresh): how many observations are above the threshold; every
\* comparison with a nan threshold is False
CountAbove(sample, thresh) ==
  Cardinality({i \in 1..Len(sample) :
                 FLt(thresh, Q(sample[i], 1))})

\* sum(sample < thresh): how many observations are below the threshold; every
\* comparison with a nan threshold is False
CountBelow(sample, thresh) ==
  Cardinality({i \in 1..Len(sample) :
                 FLt(Q(sample[i], 1), thresh)})

\* Part Two is a sequence of notebook cells, each binding one global from the
\* globals it reads; each cell is the operator below of the values it reads,
\* whatever ran between it and the cell before.

\* male_below_thresh = sum(male_sample < thresh)
male_below_thresh(male_sample, thresh) == CountBelow(male_sample, thresh)

\* female_above_thresh = sum(female_sample > thresh)
female_above_thresh(female_sample, thresh) == CountAbove(female_sample, thresh)

\* male_overlap = male_below_thresh / len(male_sample), for a non-empty sample
male_overlap(below_thresh, male_sample) == Q(below_thresh, Len(male_sample))

\* female_overlap = female_above_thresh / len(female_sample), for a non-empty
\* sample
female_overlap(above_thresh, female_sample) == Q(above_thresh, Len(female_sample))

\* misclassification_rate = (male_overlap + female_overlap) / 2
misclassification_rate(male_frac, female_frac) ==
  QDiv(QAdd(male_frac, female_frac), Q(2, 1))

\* (treatment_sample > control_sample).mean(), the arrays compared element
\* by element
superiority(control_sample, treatment_sample) ==
  LET n == Len(control_sample)
  IN Q(Cardinality({i \in 1..n : treatment_sample[i] > control_sample[i]}), n)

\* what overlap_superiority(control, treatment, n) returns for n > 0, once
\* its control.rvs(n) and treatment.rvs(n) have given the two samples and the
\* means of the two distributions the threshold: the pair
\* (overlap, superiority)
overlap_superiority(control_sample, treatment_sample, thresh, n) ==
  LET control_above == CountAbove(control_sample, thresh)
      treatment_below == CountBelow(treatment_sample, thresh)
      overlap == Q(control_above + treatment_below, n)
  IN <<overlap, superiority(control_sample, treatment_sample)>>

(* ------------------------------- state --------------------------------- *)
VARIABLES
  self,    \* the resampler object: its class and the attributes __init__ set
  rng,     \* numpy.random's global generator: values drawn so far, modulo RngPeriod
  pc,      \* "idle", or "loop" inside compute_sampling_distribution
  call,    \* the call in progress: what was called and its iters
  stats,   \* the list the comprehension of compute_sampling_distribution has built
  replicate, \* inside the comprehension: what self.resample() returned last
  last     \* the last call that returned: its arguments, result and exception

vars == <<self, rng, pc, call, stats, replicate, last>>

\* the samples a Resampler is constructed with (the empty one included:
\* __init__ checks nothing)
Samples == UNION {[1..m -> Values] : m \in 0..MaxN}

\* Python's None, where a list of two limits may stand
None == <<>>

\* the xlim a Resampler is constructed with: the default None of __init__,
\* and the [50, 100] that interact_func is called with
Xlims == {None, <<50, 100>>}

\* the pairs of groups a CohenResampler is constructed with
GroupPairs ==
  {g \in (UNION {[1..m -> Values] : m \in 0..MaxPair})
            \X (UNION {[1..m -> Values] : m \in 0..MaxPair}) :
     Len(g[1]) + Len(g[2]) <= MaxPair}

NoObject == [cls |-> "none"]

NoCall == [op |-> "none"]

\* outside the comprehension no replicate is held
NoReplicate == <<>>

(* ------------------------------ methods -------------------------------- *)
\* Resampler.__init__(self, sample, xlim=None)
Resampler_init(sample, xlim) ==
  [cls |-> "Resampler", sample |-> sample, n |-> Len(sample), xlim |-> xlim]

\* CohenResampler.__init__(self, group1, group2, xlim=None)
CohenResampler_init(group1, group2, xlim) ==
  [cls |-> "CohenResampler", group1 |-> group1, group2 |-> group2, xlim |-> xlim]

\* method lookup with a fault: CohenResampler does not override resample
MethodOwner_resample_inherited(obj, name) ==
  IF obj.cls = "CohenResampler" /\ name \in {"__init__", "sample_stat"}
    THEN "CohenResampler"
    ELSE "Resampler"

\* the class whose definition of the method runs when it is called on obj:
\* CohenResampler overrides __init__, resample and sample_stat and inherits
\* the rest from Resampler
MethodOwner(obj, name) ==
  IF obj.cls = "CohenResampler" /\ name \in {"__init__", "resample", "sample_stat"}
    THEN "CohenResampler"
    ELSE "Resampler"

\* the attributes self.<name> that the body of a class's method reads
AttributesRead(cls, name) ==
  CASE cls = "Resampler" /\ name = "resample" -> {"sample", "n"}
    [] cls = "CohenResampler" /\ name = "resample" -> {"group1", "group2"}
    [] cls = "Resampler" /\ name = "plot_sampling_distribution" -> {"xlim"}
    [] OTHER -> {}

\* every attribute the method reads on obj has been set; reading one that
\* has not raises AttributeError
CanRead(obj, name) == AttributesRead(MethodOwner(obj, name), name) \subseteq DOMAIN obj

\* Resampler.resample with a fault: the replicate is drawn one element short
Resampler_resample_short(obj) ==
  {choice(obj.sample, obj.n - 1, u) : u \in Draws(Len(obj.sample), obj.n - 1)}

\* Resampler.resample(self): every new_sample it may return
Resampler_resample(obj) ==
  {choice(obj.sample, obj.n, u) : u \in Draws(Len(obj.sample), obj.n)}

\* CohenResampler.resample with a fault: the two sizes n and m are swapped
CohenResampler_resample_swapped(obj) ==
  LET n == Len(obj.group1)
      m == Len(obj.group2)
  IN {<<choice(obj.group1, m, u1), choice(obj.group2, n, u2)>> :
        u1 \in Draws(Len(obj.group1), m), u2 \in Draws(Len(obj.group2), n)}

\* CohenResampler.resample(self): every pair (group1, group2) it may return
CohenResampler_resample(obj) ==
  LET n == Len(obj.group1)
      m == Len(obj.group2)
  IN {<<choice(obj.group1, n, u1), choice(obj.group2, m, u2)>> :
        u1 \in Draws(Len(obj.group1), n), u2 \in Draws(Len(obj.group2), m)}

\* self.resample(), dispatched on the class of self
resample(obj) ==
  IF MethodOwner(obj, "resample") = "CohenResampler"
    THEN CohenResampler_resample(obj)
    ELSE Resampler_resample(obj)

\* how many values one self.resample() draws from the generator
DrawCount(obj) ==
  IF obj.cls = "CohenResampler" THEN Len(obj.group1) + Len(obj.group2)
  ELSE obj.n

\* Resampler.sample_stat(self, sample)
Resampler_sample_stat(sample) == mean(sample)

\* CohenResampler.sample_stat(self, groups)
CohenResampler_sample_stat(groups) == CohenEffectSize(groups[1], groups[2])

\* self.sample_stat(x) with a fault: CohenResampler does not override it, the
\* statistic is the base class's mean (here of the first group's replicate)
sample_stat_not_overridden(obj, x) ==
  IF obj.cls = "CohenResampler" THEN Resampler_sample_stat(x[1])
  ELSE Resampler_sample_stat(x)

\* self.sample_stat(x), dispatched on the class of self
sample_stat(obj, x) ==
  IF MethodOwner(obj, "sample_stat") = "CohenResampler"
    THEN CohenResampler_sample_stat(x)
    ELSE Resampler_sample_stat(x)

\* the data the object was constructed with, in the shape sample_stat takes
Original(obj) ==
  IF obj.cls = "CohenResampler" THEN <<obj.group1, obj.group2>> ELSE obj.sample

\* the generator after drawing m values
Advance(r, m) == (r + m) % RngPeriod

\* range(iters) with a fault: range(1, iters), one iteration short
RangeLen_from_one(iters) == IF iters < 1 THEN 0 ELSE iters - 1

\* range(iters) has max(iters, 0) elements
RangeLen(iters) == IF iters < 0 THEN 0 ELSE iters

(* ------------------------------ actions -------------------------------- *)
\* The classes are a framework: a behaviour follows one resampler object
\* that the notebook constructs and keeps (resampler = Resampler(sample,
\* xlim), resampler = CohenResampler(group1, group2)) and the calls of its
\* methods, in any order; the generator is the only state shared with
\* anything else.  interact_func, which constructs a Resampler of its own,
\* plots it and drops it, is one step (InteractSpec below).
Init ==
  /\ self = NoObject
  /\ rng = 0
  /\ pc = "idle"
  /\ call = NoCall
  /\ stats = <<>>
  /\ replicate = NoReplicate
  /\ last = NoCall

\* numpy.random.seed(18)
Seed ==
  /\ pc = "idle"
  /\ rng' = 0
  /\ UNCHANGED <<self, pc, call, stats, replicate, last>>

\* make_sample(n): sample = weight.rvs(n) takes n values from the generator
make_sample ==
  /\ pc = "idle"
  /\ \E sample \in Samples :
       /\ rng' = Advance(rng, Len(sample))
       /\ last' = [op |-> "make_sample", args |-> <<Len(sample)>>,
                   out |-> sample, raised |-> "none"]
  /\ UNCHANGED <<self, pc, call, stats, replicate>>

\* Part One's sample_stat(sample): sample.mean()
sample_stat_part_one(sample) == mean(sample)

\* the xlim Part One's plot_sampling_distribution is called with
PartOneXlims == {None, <<55, 95>>, <<0, 100>>}

\* Part One's compute_sampling_distribution(n, iters): each of the range(iters) iterations draws
\* make_sample(n) from the generator and takes its sample_stat
compute_sampling_distribution_part_one ==
  /\ pc = "idle"
  /\ self = NoObject
  /\ \E n \in 0..MaxN, iters \in MinIters..MaxIters :
       \E samples \in [1..RangeLen(iters) -> [1..n -> Values]] :
         /\ rng' = Advance(rng, n * RangeLen(iters))
         /\ last' = [op |-> "part_one.compute_sampling_distribution",
                     n |-> n, iters |-> iters,
                     out |-> [i \in 1..RangeLen(iters) |->
                                sample_stat_part_one(samples[i])],
                     raised |-> "none"]
  /\ UNCHANGED <<self, pc, call, stats, replicate>>

\* Part One's plot_sampling_distribution(n, xlim):
\* sample_stats = compute_sampling_distribution(n, iters=1000);
\* se = numpy.std(sample_stats); ci = numpy.percentile(sample_stats, [5, 95]);
\* pyplot.hist(sample_stats); the plot is drawn with pyplot.xlim(xlim)
plot_sampling_distribution_part_one ==
  /\ pc = "idle"
  /\ self = NoObject
  /\ \E n \in 0..MaxN, xlim \in PartOneXlims :
       \E samples \in [1..PlotIters -> [1..n -> Values]] :
         LET sample_stats == [i \in 1..PlotIters |->
                                sample_stat_part_one(samples[i])]
         IN /\ rng' = Advance(rng, n * PlotIters)
            /\ \E raised \in hist(sample_stats) :
                 last' = [op |-> "part_one.plot_sampling_distribution",
                          n |-> n, sample_stats |-> sample_stats,
                          se |-> std(sample_stats),
                          ci |-> <<percentile(sample_stats, 5),
                                   percentile(sample_stats, 95)>>,
                          xlim |-> xlim, raised |-> raised]
  /\ UNCHANGED <<self, pc, call, stats, replicate>>

\* interact_func2(n, xlim): sample = weight.rvs(n) takes n values from the
\* generator, then StdResampler, a name the notebook never binds, raises
\* NameError; no object is made
interact_func2 ==
  /\ pc = "idle"
  /\ \E n \in 0..MaxN :
       rng' = Advance(rng, n)
  /\ last' = [op |-> "interact_func2", raised |-> "NameError"]
  /\ UNCHANGED <<self, pc, call, stats, replicate>>

\* interact_func(n, xlim), the whole call: sample = weight.rvs(n) takes n
\* values from the generator; resampler = Resampler(sample, xlim=xlim);
\* resampler.plot_sampling_distribution() draws PlotIters replicates of n
\* values each and computes their statistics, se and ci, then pyplot.hist and
\* pyplot.xlim(xlim).  The resampler is a local of the function: no object
\* is left in the notebook.
interact_func ==
  /\ pc = "idle"
  /\ \E sample \in Samples, xlim \in Xlims :
       LET resampler == Resampler_init(sample, xlim)
       IN \E replicates \in [1..PlotIters -> resample(resampler)] :
            LET sample_stats == [i \in 1..PlotIters |->
                                   sample_stat(resampler, replicates[i])]
            IN /\ rng' = Advance(rng, Len(sample) + PlotIters * DrawCount(resampler))
               /\ \E raised \in hist(sample_stats) :
                    last' = [op |-> "interact_func", args |-> <<Len(sample), xlim>>,
                             sample |-> sample, sample_stats |-> sample_stats,
                             se |-> std(sample_stats),
                             ci |-> <<percentile(sample_stats, 5),
                                      percentile(sample_stats, 95)>>,
                             raised |-> raised]
  /\ UNCHANGED <<self, pc, call, stats, replicate>>

\* resampler = Resampler(sample, xlim=xlim), the class used on a sample the
\* notebook holds: __init__ stores sample, len(sample) and xlim and takes
\* nothing from the generator
NewResampler ==
  /\ pc = "idle"
  /\ self = NoObject
  /\ \E sample \in Samples, xlim \in Xlims :
       /\ self' = Resampler_init(sample, xlim)
       /\ last' = [op |-> "__init__", args |-> <<sample>>, xlim |-> xlim,
                   raised |-> "none"]
  /\ UNCHANGED <<rng, pc, call, stats, replicate>>

\* resampler = CohenResampler(male_sample, female_sample): xlim is left at
\* its default None
NewCohenResampler ==
  /\ pc = "idle"
  /\ self = NoObject
  /\ \E g \in GroupPairs :
       /\ self' = CohenResampler_init(g[1], g[2], None)
       /\ last' = [op |-> "__init__", args |-> g, raised |-> "none"]
  /\ UNCHANGED <<rng, pc, call, stats, replicate>>

\* resample() with a fault: the replicate is stored over the original data
Resample_storing_replicate ==
  /\ pc = "idle"
  /\ self # NoObject
  /\ \E new_sample \in resample(self) :
       /\ last' = [op |-> "resample", out |-> new_sample, raised |-> "none"]
       /\ self' = IF self.cls = "Resampler"
                    THEN [self EXCEPT !.sample = new_sample]
                    ELSE [self EXCEPT !.group1 = new_sample[1]]
  /\ rng' = Advance(rng, DrawCount(self))
  /\ UNCHANGED <<pc, call, stats, replicate>>

\* resampler.resample()
Resample ==
  /\ pc = "idle"
  /\ self # NoObject
  /\ IF CanRead(self, "resample")
       THEN /\ \E new_sample \in resample(self) :
                 last' = [op |-> "resample", out |-> new_sample, raised |-> "none"]
            /\ rng' = Advance(rng, DrawCount(self))
       ELSE /\ last' = [op |-> "resample", raised |-> "AttributeError"]
            /\ rng' = rng
  /\ UNCHANGED <<self, pc, call, stats, replicate>>

\* resampler.sample_stat(x), x the original data or the replicate just drawn
SampleStat ==
  /\ pc = "idle"
  /\ self # NoObject
  /\ \E x \in {Original(self)} \cup
               (IF last.op = "resample" /\ last.raised = "none"
                  THEN {last.out} ELSE {}) :
       last' = [op |-> "sample_stat", arg |-> x, out |-> sample_stat(self, x),
                raised |-> "none"]
  /\ UNCHANGED <<self, rng, pc, call, stats, replicate>>

\* resampler.compute_sampling_distribution(iters) is entered: stats = []
Run ==
  /\ pc = "idle"
  /\ self # NoObject
  /\ \E iters \in MinIters..MaxIters :
       call' = [op |-> "compute_sampling_distribution", iters |-> iters]
  /\ pc' = "loop"
  /\ stats' = <<>>
  /\ last' = NoCall
  /\ UNCHANGED <<self, rng, replicate>>

\* resampler.plot_sampling_distribution() is entered: it calls
\* self.compute_sampling_distribution() with the default iters
Plot ==
  /\ pc = "idle"
  /\ self # NoObject
  /\ call' = [op |-> "plot_sampling_distribution", iters |-> PlotIters]
  /\ pc' = "loop"
  /\ stats' = <<>>
  /\ last' = NoCall
  /\ UNCHANGED <<self, rng, replicate>>

\* one iteration with a fault: the new statistic is put in front of the list
LoopIter_prepending ==
  /\ pc = "loop"
  /\ Len(stats) < RangeLen(call.iters)
  /\ \E new_sample \in resample(self) :
       /\ replicate' = new_sample
       /\ stats' = <<sample_stat(self, new_sample)>> \o stats
  /\ rng' = Advance(rng, DrawCount(self))
  /\ UNCHANGED <<self, pc, call, last>>

\* one iteration of [self.sample_stat(self.resample()) for i in range(iters)];
\* an AttributeError in self.resample() leaves the comprehension and the call
LoopIter ==
  /\ pc = "loop"
  /\ Len(stats) < RangeLen(call.iters)
  /\ IF CanRead(self, "resample")
       THEN /\ \E new_sample \in resample(self) :
                 /\ replicate' = new_sample
                 /\ stats' = Append(stats, sample_stat(self, new_sample))
            /\ rng' = Advance(rng, DrawCount(self))
            /\ UNCHANGED <<pc, call, last>>
       ELSE /\ last' = [op |-> call.op, raised |-> "AttributeError"]
            /\ pc' = "idle"
            /\ call' = NoCall
            /\ stats' = <<>>
            /\ replicate' = NoReplicate
            /\ rng' = rng
  /\ UNCHANGED self

\* the comprehension is exhausted: return numpy.array(stats)
RunReturn ==
  /\ pc = "loop"
  /\ call.op = "compute_sampling_distribution"
  /\ ~(Len(stats) < RangeLen(call.iters))
  /\ last' = [op |-> "compute_sampling_distribution", iters |-> call.iters,
              out |-> stats, raised |-> "none"]
  /\ pc' = "idle"
  /\ call' = NoCall
  /\ stats' = <<>>
  /\ replicate' = NoReplicate
  /\ UNCHANGED <<self, rng>>

\* the comprehension is exhausted inside plot_sampling_distribution:
\* se = sample_stats.std(); ci = numpy.percentile(sample_stats, [5, 95]);
\* pyplot.hist(sample_stats); then the plot is drawn with
\* pyplot.xlim(self.xlim)
PlotReturn ==
  /\ pc = "loop"
  /\ call.op = "plot_sampling_distribution"
  /\ ~(Len(stats) < RangeLen(call.iters))
  /\ \E raised \in hist(stats) :
       last' = IF raised = "ValueError"
                 THEN [op |-> "plot_sampling_distribution", sample_stats |-> stats,
                       se |-> std(stats),
                       ci |-> <<percentile(stats, 5), percentile(stats, 95)>>,
                       raised |-> "ValueError"]
               ELSE IF CanRead(self, "plot_sampling_distribution")
                 THEN [op |-> "plot_sampling_distribution", sample_stats |-> stats,
                       se |-> std(stats),
                       ci |-> <<percentile(stats, 5), percentile(stats, 95)>>,
                       xlim |-> self.xlim,
                       raised |-> "none"]
               ELSE [op |-> "plot_sampling_distribution",
                     raised |-> "AttributeError"]
  /\ pc' = "idle"
  /\ call' = NoCall
  /\ stats' = <<>>
  /\ replicate' = NoReplicate
  /\ UNCHANGED <<self, rng>>

Next ==
  \/ Seed
  \/ interact_func2
  \/ NewResampler
  \/ NewCohenResampler
  \/ Resample
  \/ SampleStat
  \/ Run
  \/ Plot
  \/ LoopIter
  \/ RunReturn
  \/ PlotReturn

Spec == Init /\ [][Next]_vars

\* Part One of the notebook, before any resampler exists: its functions share
\* the generator, and nothing else, with the resamplers that follow.
PartOneNext ==
  \/ Seed
  \/ make_sample
  \/ compute_sampling_distribution_part_one
  \/ plot_sampling_distribution_part_one

PartOneSpec == Init /\ [][PartOneNext]_vars

\* The cells that call interact_func and interact_func2 (directly or through
\* the slider): each call runs to its end before the next cell.
InteractNext ==
  \/ Seed
  \/ interact_func
  \/ interact_func2

InteractSpec == Init /\ [][InteractNext]_vars

\* A Resampler and its compute_sampling_distribution alone.  The
\* comprehension is a sequential loop of one thread: once entered, its next
\* iteration, or its return when range(iters) is exhausted, is taken.
RunNext ==
  \/ NewResampler
  \/ Run
  \/ LoopIter
  \/ RunReturn

RunFairSpec ==
  /\ Init
  /\ [][RunNext]_vars
  /\ WF_vars(LoopIter)
  /\ WF_vars(RunReturn)

(* --------------------------- notebook cells ---------------------------- *)
\* The cells that call CohenEffectSize directly on the two sample arrays of
\* the notebook (male_sample, female_sample), outside any resampler object.

\* the arrays a notebook may hold
Arrays == UNION {[1..m -> Values] : m \in 0..MaxGroup}

\* the notebook has drawn its two samples from the generator; call holds them
\* as the arguments of the cells below
CellsInit ==
  /\ self = NoObject
  /\ rng \in 0..(RngPeriod - 1)
  /\ pc = "idle"
  /\ \E group1 \in Arrays, group2 \in Arrays :
       call = [op |-> "cell", args |-> <<group1, group2>>]
  /\ stats = <<>>
  /\ replicate = NoReplicate
  /\ last = NoCall

\* CohenEffectSize(male_sample, female_sample) in sampling.ipynb
CohenEffectSize_sampling_cell ==
  /\ pc = "idle"
  /\ last' = [op |-> "CohenEffectSize", notebook |-> "sampling",
              args |-> call.args,
              out |-> CohenEffectSize(call.args[1], call.args[2]),
              raised |-> "none"]
  /\ UNCHANGED <<self, rng, pc, call, stats, replicate>>

\* CohenEffectSize(male_sample, female_sample) in the effect-size notebook
CohenEffectSize_effect_size_cell ==
  /\ pc = "idle"
  /\ last' = [op |-> "CohenEffectSize", notebook |-> "effect_size",
              args |-> call.args,
              out |-> CohenEffectSize_effect_size(call.args[1], call.args[2]),
              raised |-> "none"]
  /\ UNCHANGED <<self, rng, pc, call, stats, replicate>>

CellsNext ==
  \/ CohenEffectSize_sampling_cell
  \/ CohenEffectSize_effect_size_cell

CellsSpec == CellsInit /\ [][CellsNext]_vars

(* ------------------------- overlap_superiority ------------------------- *)
\* the thresholds (control.mean() + treatment.mean()) / 2 of the pairs of
\* distributions tried: between, at and beside the observations, irrational,
\* and the inf, -inf and nan of distributions without a finite mean
Thresholds ==
  {Q(t, 2) : t \in 1..5} \cup {Root(1, 2, 1), Inf(1), Inf(0 - 1), NaN}

\* overlap_superiority(control, treatment, n): every call draws
\* control_sample = control.rvs(n) and treatment_sample = treatment.rvs(n),
\* 2n values of the generator; dividing by n = 0 raises ZeroDivisionError
overlap_superiority_cell ==
  /\ pc = "idle"
  /\ \E n \in 0..MaxDraw :
       \E control_sample \in [1..n -> Values],
          treatment_sample \in [1..n -> Values],
          thresh \in Thresholds :
         /\ rng' = Advance(rng, 2 * n)
         /\ last' = IF n = 0
                      THEN [op |-> "overlap_superiority",
                            args |-> <<control_sample, treatment_sample>>,
                            thresh |-> thresh, n |-> n,
                            raised |-> "ZeroDivisionError"]
                      ELSE [op |-> "overlap_superiority",
                            args |-> <<control_sample, treatment_sample>>,
                            thresh |-> thresh, n |-> n,
                            out |-> overlap_superiority(control_sample,
                                                        treatment_sample,
                                                        thresh, n),
                            raised |-> "none"]
  /\ UNCHANGED <<self, pc, call, stats, replicate>>

\* the effect-size notebook seeds the generator, then plot_pdfs calls
\* overlap_superiority each time its slider moves
OverlapNext ==
  \/ Seed
  \/ overlap_superiority_cell

OverlapSpec == Init /\ [][OverlapNext]_vars

(* ----------------------- float64 observations -------------------------- *)
\* weight.rvs(n) yields float64 observations, any positive value of the
\* lognormal distribution.  Two of them, bit for bit:
\* 0.1 = 0x1.999999999999ap-4 and 70.8 = 0x1.1b33333333333p+6 (the scale of
\* weight, its median)
FloatValues ==
  {Float64(<<9, 9, 9, 9, 9, 9, 9, 9, 9, 9, 9, 9, 10>>, 0 - 4),
   Float64(<<1, 11, 3, 3, 3, 3, 3, 3, 3, 3, 3, 3, 3>>, 6)}

\* the samples of float64 observations a Resampler is constructed with (the
\* empty one included)
FloatSamples == UNION {[1..m -> FloatValues] : m \in 0..MaxFloatN}

\* Resampler.sample_stat(self, sample) on float64 observations
Resampler_sample_stat_float64(sample) == mean_float64(sample)

\* resampler = Resampler(sample, xlim=xlim) on a sample of float64
\* observations: __init__ takes nothing from the generator
NewResampler_float64 ==
  /\ pc = "idle"
  /\ self = NoObject
  /\ \E sample \in FloatSamples, xlim \in Xlims :
       /\ self' = Resampler_init(sample, xlim)
       /\ last' = [op |-> "__init__", args |-> <<sample>>, xlim |-> xlim,
                   raised |-> "none"]
  /\ UNCHANGED <<rng, pc, call, stats, replicate>>

\* one iteration of [self.sample_stat(self.resample()) for i in range(iters)]
\* of a Resampler on float64 observations
LoopIter_float64 ==
  /\ pc = "loop"
  /\ Len(stats) < RangeLen(call.iters)
  /\ \E new_sample \in Resampler_resample(self) :
       /\ replicate' = new_sample
       /\ stats' = Append(stats, Resampler_sample_stat_float64(new_sample))
  /\ rng' = Advance(rng, DrawCount(self))
  /\ UNCHANGED <<self, pc, call, last>>

\* a Resampler on float64 observations and its compute_sampling_distribution
FloatNext ==
  \/ Seed
  \/ NewResampler_float64
  \/ Run
  \/ LoopIter_float64
  \/ RunReturn

FloatSpec == Init /\ [][FloatNext]_vars

(* ------------------------- Part One's statistics ------------------------ *)
\* The cells of Part One that summarise sample_means, the array that
\* sample_means = compute_sampling_distribution(n=100, iters=1000) left in
\* the notebook.

\* the notebook has run compute_sampling_distribution(n, iters) of Part One;
\* call holds its result sample_means as the argument of the cells below
MeansInit ==
  /\ self = NoObject
  /\ rng \in 0..(RngPeriod - 1)
  /\ pc = "idle"
  /\ \E n \in 1..MaxN, iters \in 1..MaxMeans :
       \E samples \in [1..iters -> [1..n -> Values]] :
         call = [op |-> "cell",
                 args |-> <<[i \in 1..iters |-> sample_stat_part_one(samples[i])]>>]
  /\ stats = <<>>
  /\ replicate = NoReplicate
  /\ last = NoCall

\* std_err = sample_means.std()
std_err_cell ==
  /\ pc = "idle"
  /\ last' = [op |-> "std_err", sample_stats |-> call.args[1],
              out |-> std(call.args[1]), raised |-> "none"]
  /\ UNCHANGED <<self, rng, pc, call, stats, replicate>>

\* conf_int = numpy.percentile(sample_means, [5, 95])
conf_int_cell ==
  /\ pc = "idle"
  /\ last' = [op |-> "conf_int", sample_stats |-> call.args[1],
              ci |-> <<percentile(call.args[1], 5), percentile(call.args[1], 95)>>,
              raised |-> "none"]
  /\ UNCHANGED <<self, rng, pc, call, stats, replicate>>

MeansNext ==
  \/ std_err_cell
  \/ conf_int_cell

MeansSpec == MeansInit /\ [][MeansNext]_vars

(* ------------------------------- claims -------------------------------- *)
Range(f) == {f[i] : i \in DOMAIN f}

IsScalar(x) == x.k \in {"q", "root", "inf", "nan"}

\* C1: for a non-empty stored sample, whatever calls came before, the
\* collection resample() returns is as long as the original sample.
C1_ResampleKeepsLength ==
  (self.cls = "Resampler" /\ Len(self.sample) > 0 /\ last.op = "resample")
    => Len(last.out) = Len(self.sample)

\* a Resampler of two observations has returned a replicate after the
\* generator was used and reseeded or wrapped (rng is back at 0)
C1_Witness ==
  /\ self.cls = "Resampler"
  /\ Len(self.sample) = 2
  /\ last.op = "resample"
  /\ Len(last.out) = 2
  /\ rng = 0

\* C2: compute_sampling_distribution(iters = k) with k > 0 returns exactly k
\* scalar values, for a Resampler and for a CohenResampler.
C2_RunReturnsItersValues ==
  (last.op = "compute_sampling_distribution" /\ last.iters > 0)
    => /\ Len(last.out) = last.iters
       /\ \A i \in 1..Len(last.out) : IsScalar(last.out[i])

\* a CohenResampler has returned from compute_sampling_distribution(iters=2)
C2_Witness ==
  /\ self.cls = "CohenResampler"
  /\ last.op = "compute_sampling_distribution"
  /\ last.iters = 2
  /\ Len(last.out) = 2

\* C3: compute_sampling_distribution(iters) with iters <= 0 fails with
\* InvalidArgument; it returns no sampling distribution.
C3_RunRejectsNonPositiveIters ==
  (last.op = "compute_sampling_distribution" /\ last.iters <= 0)
    => last.raised = "InvalidArgument"

\* what a call of resample() may return in this state
ResampleTo(r) == Resample /\ last'.out = r

\* C4: every element of a replicate occurs in the stored sample, and every
\* collection of sample values of the sample's length (repeated values
\* included) is a replicate resample() can return.
C4_ReplicateDrawnWithReplacement ==
  /\ (self.cls = "Resampler" /\ last.op = "resample")
       => \A i \in 1..Len(last.out) : last.out[i] \in Range(self.sample)
  /\ (self.cls = "Resampler" /\ pc = "idle")
       => \A r \in [1..self.n -> Range(self.sample)] : ENABLED ResampleTo(r)

\* the value 1 occurs once in the sample and twice in the replicate
C4_Witness ==
  /\ self.cls = "Resampler"
  /\ self.sample = <<1, 2>>
  /\ last.op = "resample"
  /\ last.out = <<1, 1>>

\* C5: once constructed, the object (the stored sample, its order and its
\* length n) is changed by no step of resample(), sample_stat() or
\* compute_sampling_distribution(); only the generator moves.
C5_SampleNeverChanges == [][self # NoObject => self' = self]_vars

\* a Resampler has drawn, computed a distribution of two values, and the
\* generator has moved
C5_Witness ==
  /\ self.cls = "Resampler"
  /\ self.sample = <<1, 2>>
  /\ self.n = 2
  /\ last.op = "compute_sampling_distribution"
  /\ Len(last.out) = 2
  /\ last.out[1] # last.out[2]

\* C6: resample() of the two-group variant returns a pair whose first
\* replicate has the length of group 1 and holds only values of group 1, and
\* whose second has the length of group 2 and holds only values of group 2.
C6_TwoGroupReplicates ==
  (self.cls = "CohenResampler" /\ last.op = "resample")
    => /\ Len(last.out) = 2
       /\ Len(last.out[1]) = Len(self.group1)
       /\ Len(last.out[2]) = Len(self.group2)
       /\ \A i \in 1..Len(last.out[1]) : last.out[1][i] \in Range(self.group1)
       /\ \A i \in 1..Len(last.out[2]) : last.out[2][i] \in Range(self.group2)

\* groups of different lengths and different values have been resampled
C6_Witness ==
  /\ self.cls = "CohenResampler"
  /\ self.group1 = <<1>>
  /\ self.group2 = <<2, 2>>
  /\ last.op = "resample"
  /\ last.out = <<(<<1>>), (<<2, 2>>)>>

\* the object was constructed on data with at least one observation
NonEmptyData ==
  /\ self.cls = "Resampler" => self.n > 0
  /\ self.cls = "CohenResampler" => (Len(self.group1) > 0 /\ Len(self.group2) > 0)

\* C7: when a group has fewer than 2 observations (here: exactly one, both
\* groups being non-empty), Cohen's d fails with InsufficientData; it returns
\* neither nan nor an infinity.
C7_SmallSampleIsInsufficientData ==
  (self.cls = "CohenResampler" /\ NonEmptyData /\ last.op = "sample_stat"
     /\ (Len(last.arg[1]) < 2 \/ Len(last.arg[2]) < 2))
    => /\ last.raised = "InsufficientData"
       /\ last.out.k \notin {"nan", "inf"}

\* C8: a resampler is never constructed on an empty sample or group: the
\* constructor rejects it with InvalidArgument.
C8_NoEmptySample ==
  /\ self.cls = "Resampler" => self.n > 0
  /\ self.cls = "CohenResampler" => (Len(self.group1) > 0 /\ Len(self.group2) > 0)
  /\ (last.op = "__init__" /\ \E i \in 1..Len(last.args) : last.args[i] = <<>>)
       => last.raised = "InvalidArgument"

\* C9: for a sample whose observations all equal v, every replicate's mean is
\* v for every iteration count k > 0: every value of the sampling
\* distribution that compute_sampling_distribution(k) returns is v (so its
\* standard error is 0 and its confidence interval is [v, v]).
C9_ConstantSample ==
  (self.cls = "Resampler" /\ self.n > 0
     /\ \A i \in 1..Len(self.sample) : self.sample[i] = self.sample[1]
     /\ last.op = "compute_sampling_distribution" /\ last.iters > 0)
    => \A i \in 1..Len(last.out) : last.out[i] = self.sample[1]

\* the same for integer observations, where no sum is rounded: every value
\* computed is v, the standard error is 0 and the interval is [v, v]
ConstantSampleOfIntegers ==
  (self.cls = "Resampler" /\ self.n > 0
     /\ \A i \in 1..Len(self.sample) : self.sample[i] = self.sample[1])
    => LET v == Q(self.sample[1], 1)
       IN /\ \A i \in 1..Len(stats) : stats[i] = v
          /\ last.op = "sample_stat" => last.out = v
          /\ last.op = "compute_sampling_distribution"
               => \A i \in 1..Len(last.out) : last.out[i] = v
          /\ last.op = "plot_sampling_distribution"
               => /\ \A i \in 1..Len(last.sample_stats) : last.sample_stats[i] = v
                  /\ last.se = Q(0, 1)
                  /\ last.ci = <<v, v>>

\* lower bound <= upper bound, both between the least and the greatest value of a
CIWithinRange(a, ci) ==
  /\ FLe(ci[1], ci[2])
  /\ \E i \in 1..Len(a) : FLe(a[i], ci[1])
  /\ \E i \in 1..Len(a) : FLe(ci[2], a[i])

\* C10: for every non-empty sampling distribution (of a resampler constructed
\* on non-empty data) the confidence interval's lower bound (5th percentile)
\* is at most its upper bound (95th percentile) and both lie between the
\* least and the greatest value of the distribution.
C10_CIOrderedWithinRange ==
  (NonEmptyData /\ last.op = "plot_sampling_distribution"
     /\ Len(last.sample_stats) > 0)
    => CIWithinRange(last.sample_stats, last.ci)

\* the same, for the sampling distributions that hold neither nan nor an infinity
CIWithinRangeOfFinite ==
  (last.op = "plot_sampling_distribution" /\ Len(last.sample_stats) > 0
     /\ \A i \in 1..Len(last.sample_stats) : IsFinite(last.sample_stats[i]))
    => CIWithinRange(last.sample_stats, last.ci)

\* x == y in float64: nan equals nothing, itself included
FEq(x, y) == x.k # "nan" /\ y.k # "nan" /\ x = y

\* all values of the array a compare equal
AllEqual(a) == \A i, j \in 1..Len(a) : FEq(a[i], a[j])

\* se < 0 in float64 (false for nan; the symbolic std of values that differ
\* is positive)
IsNegative(se) == se.k \in {"q", "root", "inf"} /\ ~FLe(Q(0, 1), se)

\* C11: the standard error of every non-empty sampling distribution (of a
\* resampler constructed on non-empty data) is never negative, and it is 0
\* if and only if all values of the distribution are equal.
C11_SEZeroIffAllEqual ==
  (NonEmptyData /\ last.op = "plot_sampling_distribution"
     /\ Len(last.sample_stats) > 0)
    => /\ ~IsNegative(last.se)
       /\ (last.se = Q(0, 1)) <=> AllEqual(last.sample_stats)

\* the same, for the sampling distributions that hold neither nan nor an infinity
SEZeroIffAllEqualOfFinite ==
  (last.op = "plot_sampling_distribution" /\ Len(last.sample_stats) > 0
     /\ \A i \in 1..Len(last.sample_stats) : IsFinite(last.sample_stats[i]))
    => /\ ~IsNegative(last.se)
       /\ (last.se = Q(0, 1)) <=> AllEqual(last.sample_stats)

\* the pooled variance (n1 * var1 + n2 * var2) / (n1 + n2) of two non-empty groups
PooledVar(group1, group2) ==
  QDiv(QAdd(QMul(Q(Len(group1), 1), var(group1)),
            QMul(Q(Len(group2), 1), var(group2))),
       Q(Len(group1) + Len(group2), 1))

\* d * sqrt(pv) == diff in float64, for rational pv >= 0 and diff: false for
\* d nan or infinite (the product is then nan or infinite); for finite d it
\* is d * |d| * pv = diff * |diff|
ProductIsDiff(d, pv, diff) ==
  CASE d.k \in {"nan", "inf"} -> FALSE
    [] OTHER -> QMul(SgnSq(d), pv) = SgnSq(diff)

\* the sign of d: 1, 0, -1, or "nan"
SignOf(d) ==
  CASE d.k = "nan" -> "nan"
    [] d.k = "q" -> Sgn(d.n)
    [] OTHER -> d.s

\* what C12 says of the value d returned for group1 and group2
IsStandardizedDifference(d, group1, group2) ==
  LET diff == QSub(mean(group1), mean(group2))
  IN /\ ProductIsDiff(d, PooledVar(group1, group2), diff)
     /\ SignOf(d) = Sgn(diff.n)
     /\ (d = Q(0, 1)) <=> (mean(group1) = mean(group2))
     /\ d = CohenEffectSize(group1, group2)
     /\ d = CohenEffectSize_effect_size(group1, group2)

\* C12: for all groups (here: of two observations or more each)
\* CohenEffectSize returns d with d * sqrt(pooled variance) = mean(a) - mean(b),
\* d has the sign of the difference of the means, is 0 exactly when the means
\* are equal, and both notebooks' copies return the same value.
C12_Original ==
  (last.op = "CohenEffectSize" /\ Len(last.args[1]) >= 2 /\ Len(last.args[2]) >= 2)
    => IsStandardizedDifference(last.out, last.args[1], last.args[2])

\* the same for non-empty groups of integer observations whose pooled
\* variance is not zero (at least one group holds two different values), in
\* exact arithmetic
StandardizedDifferenceOfNonZeroPooledVar ==
  (last.op = "CohenEffectSize" /\ Len(last.args[1]) >= 1 /\ Len(last.args[2]) >= 1
     /\ PooledVar(last.args[1], last.args[2]) # Q(0, 1))
    => IsStandardizedDifference(last.out, last.args[1], last.args[2])

\* the element of rank k (0 for the least) of the finite values a in
\* ascending order: fewer than k + 1 elements are below it and at least k + 1
\* are not above it
ElementAtRank(a, k) ==
  CHOOSE v \in Range(a) :
    /\ Cardinality({i \in 1..Len(a) : FLeBase(a[i], v) /\ a[i] # v}) <= k
    /\ Cardinality({i \in 1..Len(a) : FLeBase(a[i], v)}) > k

\* the conventional percentile at fraction p100/100 of n finite values: with
\* rank r = p * (n - 1), lo and hi the sorted elements at floor(r) and
\* floor(r) + 1, the value lo + (r - floor(r)) * (hi - lo); kept symbolic when
\* lo or hi is irrational
ConventionalPercentile(a, p100) ==
  LET n == Len(a)
      r == Q(p100 * (n - 1), 100)
      floor == r.n \div r.d
      frac == QSub(r, Q(floor, 1))
      lo == ElementAtRank(a, floor)
      hi == ElementAtRank(a, IF floor + 1 > n - 1 THEN n - 1 ELSE floor + 1)
  IN IF lo = hi \/ frac = Q(0, 1) THEN lo
     ELSE IF lo.k = "q" /\ hi.k = "q" THEN QAdd(lo, QMul(frac, QSub(hi, lo)))
     ELSE [k |-> "lerp", a |-> lo, b |-> hi, t |-> frac]

\* C13: the confidence interval of a sampling distribution of n (finite)
\* values is the conventional percentile at p = 0.05 and at p = 0.95: the
\* value at rank p * (n - 1) of the sorted distribution, linearly
\* interpolated between the two adjacent sorted elements.
C13_PercentileIsRankInterpolation ==
  (last.op = "conf_int" /\ Len(last.sample_stats) > 0
     /\ \A i \in 1..Len(last.sample_stats) : IsFinite(last.sample_stats[i]))
    => last.ci = <<ConventionalPercentile(last.sample_stats, 5),
                   ConventionalPercentile(last.sample_stats, 95)>>

\* four values out of order, the two inner ones of the sorted distribution
\* equal: the ranks 0.15 and 2.85 fall between the least and the second
\* value and between the third and the greatest, and the interval is
\* [1 + 0.15 * 1/2, 3/2 + 0.85 * 1/2], not [1 + 0.05, 1 + 0.95]
C13_Witness ==
  /\ last.op = "conf_int"
  /\ last.sample_stats = <<Q(2, 1), Q(3, 2), Q(1, 1), Q(3, 2)>>
  /\ last.ci = <<Q(43, 40), Q(77, 40)>>

\* the same for the interval Resampler.plot_sampling_distribution computes
\* from its PlotIters statistics
PlotPercentileIsRankInterpolation ==
  (last.op = "plot_sampling_distribution" /\ Len(last.sample_stats) > 0
     /\ \A i \in 1..Len(last.sample_stats) : IsFinite(last.sample_stats[i]))
    => last.ci = <<ConventionalPercentile(last.sample_stats, 5),
                   ConventionalPercentile(last.sample_stats, 95)>>

\* inside run(k), k > 0: no more than k values have been computed, and
\* while fewer than k have been, resample() has a replicate to return, so
\* the next iteration can be taken
LoopCanProceed ==
  (pc = "loop" /\ call.iters > 0)
    => /\ Len(stats) <= call.iters
       /\ Len(stats) < call.iters => resample(self) # {}

\* a step inside run(k) is one iteration: one resample() of the object, whose
\* replicate is fresh from the generator, and one statistic of that replicate,
\* put after the values computed before, which stay as they were
StepIsOneIteration ==
  (pc = "loop" /\ pc' = "loop" /\ call.iters > 0)
    => /\ replicate' \in resample(self)
       /\ rng' = Advance(rng, DrawCount(self))
       /\ Len(stats') = Len(stats) + 1
       /\ SubSeq(stats', 1, Len(stats)) = stats
       /\ stats'[Len(stats')] = sample_stat(self, replicate')

\* run(k) returns after exactly k iterations, with the values in the order
\* they were computed
ReturnAfterItersIterations ==
  (pc = "loop" /\ pc' = "idle" /\ call.iters > 0)
    => /\ Len(stats) = call.iters
       /\ last'.raised = "none"
       /\ call.op = "compute_sampling_distribution" => last'.out = stats
       /\ call.op = "plot_sampling_distribution" => last'.sample_stats = stats

\* C16: run(k), k > 0, terminates after exactly k iterations; each iteration
\* performs exactly one resample() followed by one statistic call on that
\* fresh replicate, and the i-th value returned is the statistic of the i-th
\* replicate drawn: none is reused, moved or dropped.
C16_RunIsKIterationsInOrder ==
  /\ []LoopCanProceed
  /\ [][StepIsOneIteration /\ ReturnAfterItersIterations]_vars
  /\ \A k \in 1..MaxIters :
       (pc = "loop" /\ call.iters = k)
         ~> (pc = "idle" /\ last.op = "compute_sampling_distribution"
               /\ last.iters = k /\ Len(last.out) = k)

\* the second iteration of run(2) has just put a different value after the first
C16_Witness ==
  /\ pc = "loop"
  /\ call = [op |-> "compute_sampling_distribution", iters |-> 2]
  /\ self.cls = "Resampler"
  /\ stats = <<Q(1, 1), Q(3, 2)>>
  /\ replicate = <<2, 1>>

\* C17: every iteration of run() applies the statistic of the object's class
\* to what the resample() of the object's class returned: for a Resampler
\* the arithmetic mean of the replicate of its sample; for a CohenResampler,
\* through the inherited run(), Cohen's d of the pair of group replicates,
\* never the base-class mean.
C17_RunUsesOverridingMethods ==
  [][(pc = "loop" /\ pc' = "loop")
       => /\ Len(stats') = Len(stats) + 1
          /\ SubSeq(stats', 1, Len(stats)) = stats
          /\ self.cls = "Resampler"
               => /\ replicate' \in Resampler_resample(self)
                  /\ stats'[Len(stats')] = mean(replicate')
          /\ self.cls = "CohenResampler"
               => /\ replicate' \in CohenResampler_resample(self)
                  /\ stats'[Len(stats')] =
                       CohenEffectSize(replicate'[1], replicate'[2])]_vars

\* the inherited run() of a CohenResampler has computed an irrational
\* Cohen's d of a pair of group replicates
C17_Witness ==
  /\ pc = "loop"
  /\ self.cls = "CohenResampler"
  /\ self.group1 = <<1, 2>>
  /\ self.group2 = <<1>>
  /\ replicate = <<(<<2, 1>>), (<<1>>)>>
  /\ Len(stats) = 1
  /\ stats[1].k = "root"
  /\ stats[1].s = 1

\* the cells of Part Two run in order on one pair of non-empty samples and
\* one threshold
PartTwoRate(male_sample, female_sample, thresh) ==
  misclassification_rate(
    male_overlap(male_below_thresh(male_sample, thresh), male_sample),
    female_overlap(female_above_thresh(female_sample, thresh), female_sample))

\* C18: for every pair of samples of size n > 0 and every threshold, the
\* overlap that overlap_superiority returns is the misclassification rate of
\* Part Two on the same samples (the treatment group in the place of the
\* males, the control group in the place of the females): the average of the
\* fraction of the control group above the threshold and the fraction of the
\* treatment group below it, a probability in [0, 1].
C18_OverlapIsMisclassificationRate ==
  (last.op = "overlap_superiority" /\ last.n > 0)
    => /\ last.out[1] = PartTwoRate(last.args[2], last.args[1], last.thresh)
       /\ QLe(Q(0, 1), last.out[1])
       /\ QLe(last.out[1], Q(1, 1))

\* what the code returns instead: the sum of the two fractions, twice the
\* misclassification rate, between 0 and 2; the superiority is a fraction
OverlapIsTwiceMisclassificationRate ==
  (last.op = "overlap_superiority" /\ last.n > 0)
    => /\ last.out[1] = QMul(Q(2, 1),
                             PartTwoRate(last.args[2], last.args[1],
                                         last.thresh))
       /\ QLe(Q(0, 1), last.out[1])
       /\ QLe(last.out[1], Q(2, 1))
       /\ QLe(Q(0, 1), last.out[2])
       /\ QLe(last.out[2], Q(1, 1))

\* the float64 v lies between the least and the greatest observation of sample
WithinFloatSampleRange(v, sample) ==
  /\ \E i \in 1..Len(sample) : F64Le(sample[i], v)
  /\ \E j \in 1..Len(sample) : F64Le(v, sample[j])

\* C19: with the mean as statistic, for every non-empty stored sample and
\* every k > 0, every value of the sampling distribution that
\* compute_sampling_distribution(k) returns lies between the minimum and the
\* maximum of the sample.
C19_MeansWithinSampleRange ==
  (self.cls = "Resampler" /\ self.n > 0
     /\ last.op = "compute_sampling_distribution" /\ last.iters > 0)
    => \A i \in 1..Len(last.out) :
         WithinFloatSampleRange(last.out[i], self.sample)

\* the rational v lies between the least and the greatest observation of sample
WithinSampleRange(v, sample) ==
  /\ \E i \in 1..Len(sample) : QLe(Q(sample[i], 1), v)
  /\ \E j \in 1..Len(sample) : QLe(v, Q(sample[j], 1))

\* the same for integer observations, where no sum is rounded, and for both
\* bounds of the confidence interval
MeansOfIntegersWithinSampleRange ==
  (self.cls = "Resampler" /\ self.n > 0)
    => /\ (last.op = "compute_sampling_distribution" /\ last.iters > 0)
            => \A i \in 1..Len(last.out) :
                 WithinSampleRange(last.out[i], self.sample)
       /\ last.op = "plot_sampling_distribution"
            => /\ \A i \in 1..Len(last.sample_stats) :
                    WithinSampleRange(last.sample_stats[i], self.sample)
               /\ WithinSampleRange(last.ci[1], self.sample)
               /\ WithinSampleRange(last.ci[2], self.sample)

\* the methods that can be called on a resampler object
Methods ==
  {"resample", "sample_stat", "compute_sampling_distribution",
   "plot_sampling_distribution"}

\* C20: the constructor of CohenResampler sets group1, group2 and xlim only
\* (cls is the object's class, not an attribute it sets), never sample and n;
\* every method that can be called on the object, its own or inherited, reads
\* only attributes the constructor set, and no call has raised AttributeError.
C20_CohenReadsOnlySetFields ==
  self.cls = "CohenResampler"
    => /\ DOMAIN self = {"cls", "group1", "group2", "xlim"}
       /\ \A m \in Methods : CanRead(self, m)
       /\ last.op # "none" => last.raised # "AttributeError"

\* a CohenResampler has gone through the inherited
\* plot_sampling_distribution, which called its resample and sample_stat
C20_Witness ==
  /\ self.cls = "CohenResampler"
  /\ "sample" \notin DOMAIN self
  /\ "n" \notin DOMAIN self
  /\ last.op = "plot_sampling_distribution"
  /\ last.raised = "none"
  /\ Len(last.sample_stats) = PlotIters
====
